---- MODULE Spec2Model ----
(***************************************************************************)
(* The document-processing pipeline of juris-ai-guard: the processing_queue *)
(* table and enqueue_document_processing (SQL migration), and the           *)
(* document-processor edge function (supabase/functions/document-processor) *)
(* whose handler is a sequence of awaited database and storage calls.       *)
(* Every await is a point where another invocation of the handler can run,  *)
(* so each awaited call is one action; the code between two awaits belongs  *)
(* to the action of the call that precedes it.                              *)
(***************************************************************************)
EXTENDS Integers, Naturals, Sequences, FiniteSets, TLC

\* ---------------------------------------------------------------- bounds
\* number of processor invocations (HTTP requests) in a behaviour
NumInvocations == 2
\* number of rows the processing_queue may hold
MaxTasks == 2
\* number of database and storage calls that return an error in a behaviour
MaxFaults == 1
\* number of status updates the processor makes on the rows of the uploaded
\* document while the uploader is followed
MaxStatusUpdates == 5

Invocations == 1..NumInvocations
Docs == {"d1", "d2"}
\* a request body without documentId (index.ts:136)
NoDoc == "none"
\* queueItem before the select has returned a row
NoTask == 0
\* dek before generateDEK has run
NoDEK == 0
\* encryptedPath before the handler has built it
NoPath == <<>>

\* ------------------------------------------------------- program constants
\* column default of processing_queue.status, used by enqueue_document_processing
QueueDefaultStatus == "queued"
\* the status the processor's select filters on
ProcessorSelectStatus == "pending"
\* status of a document row the uploader inserts
UploadedStatus == "uploaded"

TerminalStatuses == {"completed", "failed"}

VARIABLES
    queue,        \* processing_queue: sequence of rows, the row id is its index
    audit,        \* history of each queue row: the statuses it took, and how
                  \* often started_at and completed_at / error_message were written
    docStatus,    \* documents.status per document
    docWriters,   \* history: the invocations that updated documents.status
    keys,         \* encryption_keys rows
    metas,        \* document_encryption rows
    encBucket,    \* objects of the 'encrypted-documents' bucket
    pc,           \* per invocation: the call it is about to make
    docId,        \* per invocation: documentId of the request body
    queueItem,    \* per invocation: id of the row the select returned
    err,          \* per invocation: the step whose error was thrown, or "none"
    failedCalls,  \* history: the calls that returned an error, as pairs
                  \* <<invocation, call>>
    response,     \* per invocation: HTTP status returned, 0 before the return
    plainBucket,  \* objects of the 'documents' bucket: the bytes at each
                  \* document's file_path
    mem,          \* per invocation: its buffers (fileBytes, dek), whether it
                  \* holds a ciphertext, and its encryptedPath
    enqLog,       \* history: the calls of enqueue_document_processing, each
                  \* with its document and the id it returned
    kms,          \* a KMSService at work on its own: the master key, the
                  \* arguments of a call and what the calls returned
    up,           \* one upload of the DocumentUploader: its position, the
                  \* task it enqueued, its realtime subscription
    rag,          \* one request to the ai-rag-handler
    auth,         \* an AuthGuard: its state, the router's path, the session
    chat          \* an AIAssistant: its state and its request in flight

vars == <<queue, audit, docStatus, docWriters, keys, metas, encBucket,
          pc, docId, queueItem, err, failedCalls, response,
          plainBucket, mem, enqLog, kms, up, rag, auth, chat>>

\* the state of the queue and of the processor's invocations
procVars == <<queue, audit, docStatus, docWriters, keys, metas, encBucket,
              pc, docId, queueItem, err, failedCalls, response,
              plainBucket, mem, enqLog>>

\* the state of the components that run apart from the processor
clientVars == <<kms, up, rag, auth, chat>>

dbVars == <<queue, audit, docStatus, docWriters, keys, metas, encBucket>>

TaskIds == 1..Len(queue)

\* ------------------------------------------------------------------ Init
\* a call that has not been made
NotRun == [ok |-> FALSE, value |-> <<>>, error |-> "not run"]

\* a KMSService that is not used
KmsRest ==
    [master |-> <<>>, dek |-> <<>>, iv |-> <<>>, data |-> <<>>,
     wrapped |-> NotRun, input |-> NotRun, unwrapped |-> NotRun,
     file |-> NotRun]

\* the tables and buckets after the migrations and the uploads, no request
\* received yet
ProcessorInit ==
    /\ queue = <<>>
    /\ audit = <<>>
    /\ docStatus = [d \in Docs |-> UploadedStatus]
    /\ docWriters = [d \in Docs |-> {}]
    /\ keys = {}
    /\ metas = {}
    /\ encBucket = {}
    /\ pc = [i \in Invocations |-> "idle"]
    /\ docId = [i \in Invocations |-> NoDoc]
    /\ queueItem = [i \in Invocations |-> NoTask]
    /\ err = [i \in Invocations |-> "none"]
    /\ failedCalls = {}
    /\ response = [i \in Invocations |-> 0]
    /\ plainBucket = [d \in Docs |-> "plaintext"]
    /\ mem = [i \in Invocations |->
                [fileBytes |-> "none", dek |-> NoDEK, ciphertext |-> FALSE,
                 encryptedPath |-> NoPath]]
    /\ enqLog = <<>>

\* a DocumentUploader on which no file was dropped
UploaderRest ==
    [pc |-> "rest", task |-> "none", sub |-> "none", inflight |-> <<>>,
     toasts |-> 0, updates |-> 0]

\* no request to the ai-rag-handler
RagRest == [pc |-> "rest"]

\* no AuthGuard mounted
AuthRest == [pc |-> "rest"]

\* no AIAssistant mounted
ChatRest == [pc |-> "rest"]

Init ==
    /\ ProcessorInit
    /\ kms = KmsRest
    /\ up = UploaderRest
    /\ rag = RagRest
    /\ auth = AuthRest
    /\ chat = ChatRest

\* ------------------------------------------------------- queue producers
\* a new row of processing_queue in the given status
NewRow(d, s) ==
    [document_id |-> d, status |-> s, started_at |-> FALSE,
     completed_at |-> FALSE, error_message |-> ""]

\* INSERT INTO processing_queue.  Documents are interchangeable, so the one
\* that gets the first row is called d1.
InsertRow(d, s) ==
    /\ Len(queue) < MaxTasks
    /\ d = "d1" \/ \E t \in TaskIds : queue[t].document_id = "d1"
    /\ queue' = Append(queue, NewRow(d, s))
    /\ audit' = Append(audit, [log |-> <<s>>, started |-> 0, terminal |-> 0])

\* an enqueue that returns the id of a row the document already has in the
\* default status, and inserts only when there is none
EnqueueDedup(d) ==
    /\ \A t \in TaskIds : audit[t].log[1] = QueueDefaultStatus
    /\ IF \E t \in TaskIds : queue[t] = NewRow(d, QueueDefaultStatus)
       THEN /\ Len(enqLog) < MaxTasks
            /\ enqLog' = Append(enqLog,
                   [document_id |-> d,
                    id |-> CHOOSE t \in TaskIds :
                             queue[t] = NewRow(d, QueueDefaultStatus)])
            /\ UNCHANGED <<queue, audit>>
       ELSE /\ InsertRow(d, QueueDefaultStatus)
            /\ enqLog' = Append(enqLog, [document_id |-> d, id |-> Len(queue) + 1])
    /\ UNCHANGED <<docStatus, docWriters, keys, metas, encBucket,
                   pc, docId, queueItem, err, failedCalls, response,
                   plainBucket, mem>>
    /\ UNCHANGED clientVars

\* enqueue_document_processing(p_document_id): INSERT with the column
\* default for status, RETURNING id.  No step of the processor reads or
\* writes a row whose status is the default, so a call commutes with every
\* step of the processor, and task ids are interchangeable: the calls are
\* taken before the rows the processor can select are inserted.
Enqueue(d) ==
    /\ \A t \in TaskIds : audit[t].log[1] = QueueDefaultStatus
    /\ InsertRow(d, QueueDefaultStatus)
    /\ enqLog' = Append(enqLog, [document_id |-> d, id |-> Len(queue) + 1])
    /\ UNCHANGED <<docStatus, docWriters, keys, metas, encBucket,
                   pc, docId, queueItem, err, failedCalls, response,
                   plainBucket, mem>>
    /\ UNCHANGED clientVars

\* a row in the status the processor selects on.  No statement under the
\* migrations creates one (the column default is 'queued'); the processor's
\* select presumes a producer that writes 'pending', and the handler's steps
\* after the select run only for such rows.
InsertPendingTask(d) ==
    /\ InsertRow(d, ProcessorSelectStatus)
    /\ UNCHANGED <<docStatus, docWriters, keys, metas, encBucket,
                   pc, docId, queueItem, err, failedCalls, response,
                   plainBucket, mem, enqLog>>
    /\ UNCHANGED clientVars

\* ------------------------------------------------------ handler plumbing
\* the invocation moves to its next call
Goto(i, next) ==
    /\ pc' = [pc EXCEPT ![i] = next]
    /\ UNCHANGED response

\* a catch block that rethrows: the invocation ends without a response
CatchRethrow(i, s) ==
    /\ pc' = [pc EXCEPT ![i] = "done"]
    /\ err' = [err EXCEPT ![i] = s]
    /\ UNCHANGED response

\* catch (error): console.error, return Response(success: false), status 500.
\* The catch block writes to no table and awaits nothing, so it runs in the
\* step of the call whose error was thrown.
Catch(i, s) ==
    /\ pc' = [pc EXCEPT ![i] = "done"]
    /\ err' = [err EXCEPT ![i] = s]
    /\ response' = [response EXCEPT ![i] = 500]

\* throw new Error(...) at step s, inside the handler's try block
Throw(i, s) == Catch(i, s)

\* fileBytes.fill(0); return Response(success: true), status 200
Respond(i) ==
    /\ mem' = [mem EXCEPT ![i].fileBytes = "zeroed"]
    /\ pc' = [pc EXCEPT ![i] = "done"]
    /\ response' = [response EXCEPT ![i] = 200]

\* history: call s of invocation i returned an error
NoteFailure(i, s) == failedCalls' = failedCalls \cup {<<i, s>>}

\* the results a database or storage call can have: success, or an error
\* while the behaviour's budget of failing calls lasts
Outcomes ==
    IF Cardinality(failedCalls) < MaxFaults THEN BOOLEAN ELSE {TRUE}

\* processing_queue rows .eq('document_id', d).eq('status', 'pending')
Matching(d) ==
    {t \in TaskIds : queue[t].document_id = d
                     /\ queue[t].status = ProcessorSelectStatus}

\* UPDATE processing_queue SET status = s ... WHERE id = t, with the history
SetStatus(t, s, startedInc, terminalInc) ==
    /\ queue' = [queue EXCEPT ![t].status = s,
                              ![t].started_at = @ \/ (startedInc = 1),
                              ![t].completed_at = @ \/ (terminalInc = 1)]
    /\ audit' = [audit EXCEPT
                   ![t].log = IF queue[t].status = s THEN @ ELSE Append(@, s),
                   ![t].started = @ + startedInc,
                   ![t].terminal = @ + terminalInc]

\* ------------------------------------------------- the processor's steps
\* const { documentId } = await req.json(); if (!documentId) throw.
\* Invocations are interchangeable and parsing the body touches nothing
\* shared, so they are numbered in the order of their queue selects: an
\* invocation parses its request once the one before it has made its select.
Request(i) ==
    /\ pc[i] = "idle"
    /\ IF i = 1 THEN TRUE ELSE pc[i - 1] \notin {"idle", "select"}
    /\ \E d \in Docs \cup {NoDoc} :
         /\ docId' = [docId EXCEPT ![i] = d]
         /\ IF d = NoDoc THEN Throw(i, "request")
                         ELSE Goto(i, "select") /\ UNCHANGED err
    /\ UNCHANGED <<dbVars, queueItem, failedCalls,
                   plainBucket, mem, enqLog>>
    /\ UNCHANGED clientVars

\* a select that takes any one of the matching rows instead of .single()
SelectQueueItemAny(i) ==
    /\ pc[i] = "select"
    /\ \E ok \in Outcomes :
         IF ok /\ Matching(docId[i]) # {}
         THEN /\ \E t \in Matching(docId[i]) :
                   queueItem' = [queueItem EXCEPT ![i] = t]
              /\ Goto(i, "claim")
              /\ UNCHANGED <<err, failedCalls>>
         ELSE /\ Throw(i, "select")
              /\ IF ok THEN UNCHANGED failedCalls ELSE NoteFailure(i, "select")
              /\ UNCHANGED queueItem
    /\ UNCHANGED <<dbVars, docId, plainBucket, mem, enqLog>>
    /\ UNCHANGED clientVars

\* select('*').eq('document_id', documentId).eq('status', 'pending').single():
\* .single() reports an error unless exactly one row matches
SelectQueueItem(i) ==
    /\ pc[i] = "select"
    /\ \E ok \in Outcomes :
         IF ok /\ Cardinality(Matching(docId[i])) = 1
         THEN /\ queueItem' = [queueItem EXCEPT
                                 ![i] = CHOOSE t \in Matching(docId[i]) : TRUE]
              /\ Goto(i, "claim")
              /\ UNCHANGED <<err, failedCalls>>
         ELSE /\ Throw(i, "select")
              /\ IF ok THEN UNCHANGED failedCalls ELSE NoteFailure(i, "select")
              /\ UNCHANGED queueItem
    /\ UNCHANGED <<dbVars, docId, plainBucket, mem, enqLog>>
    /\ UNCHANGED clientVars

\* update({status: 'processing', started_at}).eq('id', queueItem.id); the
\* result of the call is not inspected
ClaimTask(i) ==
    /\ pc[i] = "claim"
    /\ \E ok \in Outcomes :
         IF ok THEN /\ SetStatus(queueItem[i], "processing", 1, 0)
                    /\ UNCHANGED failedCalls
               ELSE /\ NoteFailure(i, "claim")
                    /\ UNCHANGED <<queue, audit>>
    /\ Goto(i, "loaddoc")
    /\ UNCHANGED <<docStatus, docWriters, keys, metas, encBucket,
                   docId, queueItem, err, plainBucket, mem, enqLog>>
    /\ UNCHANGED clientVars

\* a DEK that is the same for every call
GenerateDEKFixed(i) == 1

\* KMSService.generateDEK: 32 bytes of crypto.getRandomValues, a value no
\* other call returns; the call of invocation i returns the DEK named i
GenerateDEK(i) == i

\* KMSService.encryptDEK: the DEK under the master key, as iv:authTag:ciphertext
EncryptDEK(dek) == <<"wrapped", dek>>

\* LoadAndDownload without the check of downloadError: the handler goes on to
\* the key record after a failed download
LoadAndDownloadUnchecked(i) ==
    /\ pc[i] = "loaddoc"
    /\ \/ /\ Goto(i, "insertkey")
          /\ mem' = [mem EXCEPT ![i].fileBytes = plainBucket[docId[i]],
                                ![i].dek = GenerateDEK(i)]
          /\ UNCHANGED <<err, failedCalls>>
       \/ /\ FALSE \in Outcomes
          /\ Throw(i, "loaddoc")
          /\ NoteFailure(i, "loaddoc")
          /\ UNCHANGED mem
       \/ /\ FALSE \in Outcomes
          /\ Goto(i, "insertkey")
          /\ NoteFailure(i, "download")
          /\ UNCHANGED <<err, mem>>
    /\ UNCHANGED <<dbVars, docId, queueItem, plainBucket, enqLog>>
    /\ UNCHANGED clientVars

\* from('documents').select('*').eq('id', documentId).single(), then
\* storage.from('documents').download(document.file_path); each throws on
\* error.  Both calls only read (the row's file_path and the plaintext object,
\* which no step of the processor writes), so they are one step; after them
\* the bytes are read into fileBytes and the DEK is generated and wrapped in
\* memory.
LoadAndDownload(i) ==
    /\ pc[i] = "loaddoc"
    /\ \/ /\ Goto(i, "insertkey")
          /\ mem' = [mem EXCEPT ![i].fileBytes = plainBucket[docId[i]],
                                ![i].dek = GenerateDEK(i)]
          /\ UNCHANGED <<err, failedCalls>>
       \/ \E call \in {"loaddoc", "download"} :
            /\ FALSE \in Outcomes
            /\ Throw(i, call)
            /\ NoteFailure(i, call)
            /\ UNCHANGED mem
    /\ UNCHANGED <<dbVars, docId, queueItem, plainBucket, enqLog>>
    /\ UNCHANGED clientVars

\* InsertKeyRecord without the check of keyError: the handler goes on to the
\* encryption after a failed insert
InsertKeyRecordUnchecked(i) ==
    /\ pc[i] = "insertkey"
    /\ \E ok \in Outcomes :
         IF ok THEN /\ keys' = keys \cup {[id |-> i,
                                           key_id |-> docId[i],
                                           encrypted_dek |-> EncryptDEK(mem[i].dek),
                                           inv |-> i]}
                    /\ UNCHANGED failedCalls
               ELSE /\ NoteFailure(i, "insertkey")
                    /\ UNCHANGED keys
    /\ Goto(i, "encrypt")
    /\ UNCHANGED <<queue, audit, docStatus, docWriters, metas, encBucket,
                   docId, queueItem, err, plainBucket, mem, enqLog>>
    /\ UNCHANGED clientVars

\* from('encryption_keys').insert({key_id, encrypted_dek, created_by})
\* .select().single(); throws on error
InsertKeyRecord(i) ==
    /\ pc[i] = "insertkey"
    /\ \E ok \in Outcomes :
         IF ok THEN /\ keys' = keys \cup {[id |-> i,
                                           key_id |-> docId[i],
                                           encrypted_dek |-> EncryptDEK(mem[i].dek),
                                           inv |-> i]}
                    /\ Goto(i, "encrypt")
                    /\ UNCHANGED <<err, failedCalls>>
               ELSE /\ Throw(i, "insertkey")
                    /\ NoteFailure(i, "insertkey")
                    /\ UNCHANGED keys
    /\ UNCHANGED <<queue, audit, docStatus, docWriters, metas, encBucket,
                   docId, queueItem, plainBucket, mem, enqLog>>
    /\ UNCHANGED clientVars

\* the milliseconds in which encryptedPath was built for document d
StampsOf(d) == {mem[j].encryptedPath[2] :
                  j \in {k \in Invocations : /\ mem[k].encryptedPath # NoPath
                                             /\ docId[k] = d}}

\* Date.now(), the wall clock in milliseconds: a read returns a millisecond an
\* earlier read returned, or one no earlier read returned.  Each invocation
\* reads the clock once for encryptedPath, so a new millisecond is named by
\* the invocation that reads it first.  The value goes only into the path,
\* next to documentId, so of the earlier reads only those for the same
\* document can make a difference.
Now(i) == {i} \cup StampsOf(docId[i])

\* `encrypted/${documentId}_${Date.now()}.enc`
EncryptedPath(d, ts) == <<d, ts>>

\* the object at a path of the 'encrypted-documents' bucket exists
ObjectExists(path) == \E o \in encBucket : o.path = path

\* an upload that writes the bytes into the 'documents' bucket, at the
\* document's file_path
UploadToDocuments(i, path) ==
    /\ plainBucket' = [plainBucket EXCEPT ![docId[i]] = "ciphertext"]
    /\ UNCHANGED encBucket

\* storage.from('encrypted-documents').upload(encryptedPath, ciphertext, ...)
\* that succeeds: the object holds the bytes encrypted under the invocation's
\* DEK
UploadToEncrypted(i, path) ==
    /\ encBucket' = encBucket \cup {[path |-> path, dek |-> mem[i].dek, inv |-> i]}
    /\ UNCHANGED plainBucket

\* await kms.encryptFile(fileBytes, dek), whose rejection the handler catches,
\* then encryptedPath is built from documentId and Date.now(), then
\* storage.from('encrypted-documents').upload(encryptedPath, ...), which
\* throws on error.  The encryption works on the invocation's own memory.  The
\* upload passes no upsert option, so it returns an error when an object
\* already exists at the path.
EncryptAndUpload(i) ==
    /\ pc[i] = "encrypt"
    /\ \/ /\ FALSE \in Outcomes
          /\ Throw(i, "encrypt")
          /\ NoteFailure(i, "encrypt")
          /\ UNCHANGED <<encBucket, plainBucket, mem>>
       \/ \E ts \in Now(i) :
            /\ mem' = [mem EXCEPT ![i].ciphertext = TRUE,
                                  ![i].encryptedPath = EncryptedPath(docId[i], ts)]
            /\ \E ok \in Outcomes :
                 IF ok /\ ~ObjectExists(EncryptedPath(docId[i], ts))
                 THEN /\ UploadToEncrypted(i, EncryptedPath(docId[i], ts))
                      /\ Goto(i, "insertmeta")
                      /\ UNCHANGED <<err, failedCalls>>
                 ELSE /\ Throw(i, "upload")
                      /\ NoteFailure(i, "upload")
                      /\ UNCHANGED <<encBucket, plainBucket>>
    /\ UNCHANGED <<queue, audit, docStatus, docWriters, keys, metas,
                   docId, queueItem, enqLog>>
    /\ UNCHANGED clientVars

\* the id of the encryption_keys row the invocation inserted (encryptionKey.id)
KeyOf(i) == (CHOOSE k \in keys : k.inv = i).id

\* InsertMetadata without the check of encryptionMetaError: the handler goes
\* on to the document update after a failed insert
InsertMetadataUnchecked(i) ==
    /\ pc[i] = "insertmeta"
    /\ \E ok \in Outcomes :
         IF ok THEN /\ metas' = metas \cup
                                  {[document_id |-> docId[i],
                                    encryption_key_id |-> KeyOf(i),
                                    encrypted_path |-> mem[i].encryptedPath,
                                    inv |-> i]}
                    /\ UNCHANGED failedCalls
               ELSE /\ NoteFailure(i, "insertmeta")
                    /\ UNCHANGED metas
    /\ Goto(i, "updatedoc")
    /\ UNCHANGED <<queue, audit, docStatus, docWriters, keys, encBucket,
                   docId, queueItem, err, plainBucket, mem, enqLog>>
    /\ UNCHANGED clientVars

\* from('document_encryption').insert({...}); throws on error
InsertMetadata(i) ==
    /\ pc[i] = "insertmeta"
    /\ \E ok \in Outcomes :
         IF ok THEN /\ metas' = metas \cup
                                  {[document_id |-> docId[i],
                                    encryption_key_id |-> KeyOf(i),
                                    encrypted_path |-> mem[i].encryptedPath,
                                    inv |-> i]}
                    /\ Goto(i, "updatedoc")
                    /\ UNCHANGED <<err, failedCalls>>
               ELSE /\ Throw(i, "insertmeta")
                    /\ NoteFailure(i, "insertmeta")
                    /\ UNCHANGED metas
    /\ UNCHANGED <<queue, audit, docStatus, docWriters, keys, encBucket,
                   docId, queueItem, plainBucket, mem, enqLog>>
    /\ UNCHANGED clientVars

\* from('documents').update({status: 'encrypted', processed_at})
\* .eq('id', documentId); the result of the call is not inspected
UpdateDocument(i) ==
    /\ pc[i] = "updatedoc"
    /\ \E ok \in Outcomes :
         IF ok THEN /\ docStatus' = [docStatus EXCEPT ![docId[i]] = "encrypted"]
                    /\ docWriters' = [docWriters EXCEPT ![docId[i]] = @ \cup {i}]
                    /\ UNCHANGED failedCalls
               ELSE /\ NoteFailure(i, "updatedoc")
                    /\ UNCHANGED <<docStatus, docWriters>>
    /\ Goto(i, "complete")
    /\ UNCHANGED <<queue, audit, keys, metas, encBucket,
                   docId, queueItem, err, plainBucket, mem, enqLog>>
    /\ UNCHANGED clientVars

\* update({status: 'completed', completed_at}).eq('id', queueItem.id); the
\* result of the call is not inspected; then fileBytes.fill(0) and the 200
\* response
MarkCompleted(i) ==
    /\ pc[i] = "complete"
    /\ \E ok \in Outcomes :
         IF ok THEN /\ SetStatus(queueItem[i], "completed", 0, 1)
                    /\ UNCHANGED failedCalls
               ELSE /\ NoteFailure(i, "complete")
                    /\ UNCHANGED <<queue, audit>>
    /\ Respond(i)
    /\ UNCHANGED <<docStatus, docWriters, keys, metas, encBucket,
                   docId, queueItem, err, plainBucket, enqLog>>
    /\ UNCHANGED clientVars

\* ------------------------------------------------------------------ Next
Next ==
    \/ \E d \in Docs : Enqueue(d)
    \/ \E d \in Docs : InsertPendingTask(d)
    \/ \E i \in Invocations : Request(i)
    \/ \E i \in Invocations : SelectQueueItem(i)
    \/ \E i \in Invocations : ClaimTask(i)
    \/ \E i \in Invocations : LoadAndDownload(i)
    \/ \E i \in Invocations : InsertKeyRecord(i)
    \/ \E i \in Invocations : EncryptAndUpload(i)
    \/ \E i \in Invocations : InsertMetadata(i)
    \/ \E i \in Invocations : UpdateDocument(i)
    \/ \E i \in Invocations : MarkCompleted(i)

Spec == Init /\ [][Next]_vars

\* ================================================================ claims
\* the invocations that were handed row t by their select and whose claim
\* update was applied: they are processing, or have processed, the row
Claimants(t) ==
    {i \in Invocations : /\ queueItem[i] = t
                         /\ pc[i] \notin {"select", "claim"}
                         /\ <<i, "claim">> \notin failedCalls}

\* the queue rows of document d
RowsOf(d) == {t \in TaskIds : queue[t].document_id = d}

\* the calls of invocation i that returned an error
FailedOf(i) == {c \in {"select", "claim", "loaddoc", "download", "insertkey",
                       "encrypt", "upload", "insertmeta", "updatedoc",
                       "complete"} : <<i, c>> \in failedCalls}

\* the steps after the claim whose error the handler throws
PostClaimSteps == {"loaddoc", "download", "insertkey", "encrypt", "upload",
                   "insertmeta"}

IsLifecyclePrefix(s) ==
    /\ Len(s) <= 3
    /\ Len(s) >= 1 => s[1] \in {QueueDefaultStatus, ProcessorSelectStatus}
    /\ Len(s) >= 2 => s[2] = "processing"
    /\ Len(s) >= 3 => s[3] \in TerminalStatuses

C4_MetadataBeforeStatus ==
    \A d \in Docs :
      docStatus[d] = "encrypted" => \E m \in metas : m.document_id = d

\* C4 witness: a document has been flipped to encrypted
C4_Witness == \E d \in Docs : docStatus[d] = "encrypted"

C6_DownloadFailureFrame ==
    \A i \in Invocations :
      <<i, "download">> \in failedCalls
        => /\ i \notin docWriters[docId[i]]
           /\ ~ \E k \in keys : k.inv = i
           /\ ~ \E m \in metas : m.inv = i
           /\ (\A j \in Invocations \ {i} : docId[j] # docId[i])
                => docStatus[docId[i]] = UploadedStatus

\* C6 witness: an invocation has ended after its download failed
C6_Witness ==
    \E i \in Invocations : <<i, "download">> \in failedCalls /\ pc[i] = "done"

C8_SuccessScenario ==
    [][\A i \in Invocations :
         LET d == docId'[i] IN
         (/\ pc[i] # "done" /\ pc'[i] = "done"
          /\ d \in Docs
          /\ \A j \in Invocations \ {i} : docId'[j] # d
          /\ FailedOf(i)' = {}
          /\ Cardinality(RowsOf(d)) = 1
          /\ \A t \in RowsOf(d) : audit[t].log[1] = QueueDefaultStatus)
         => /\ docStatus'[d] = "encrypted"
            /\ \A t \in RowsOf(d) : queue'[t].status = "completed"
            /\ Cardinality({k \in keys' : k.key_id = d}) = 1
            /\ Cardinality({m \in metas' : m.document_id = d}) = 1]_vars

HasKeyRecord(i) == \E k \in keys : k.inv = i

\* the objects of the 'encrypted-documents' bucket the invocation uploaded
ObjectsOf(i) == {o \in encBucket : o.inv = i}

PathOf(i) == mem[i].encryptedPath

C14_PlaintextBucketUntouched ==
    \A d \in Docs : plainBucket[d] = "plaintext"

\* an invocation has uploaded a ciphertext
C14_Witness ==
    \E i \in Invocations : ObjectsOf(i) # {} /\ pc[i] = "done"

\* the invocation has got past its encryption_keys insert
KeyInsertDone(i) ==
    \/ pc[i] \in {"encrypt", "insertmeta", "updatedoc", "complete"}
    \/ pc[i] = "done" /\ err[i] \in {"none", "encrypt", "upload", "insertmeta"}

\* the encryption_keys rows the invocation inserted
KeyRecordsOf(i) == {k \in keys : k.inv = i}

\* C15: every encryption event (invocation that generated a DEK) has its own
\* DEK; it inserts exactly one key record, which holds that DEK wrapped and
\* stays as inserted (key records are not updated or deleted); no DEK is the
\* key of two ciphertexts, so none protects two documents.
C15_OneDekPerEncryptionEvent ==
    /\ \A i, j \in Invocations :
         (i # j /\ mem[i].dek # NoDEK /\ mem[j].dek # NoDEK) =>
             mem[i].dek # mem[j].dek
    /\ \A i \in Invocations :
         /\ Cardinality(KeyRecordsOf(i)) <= 1
         /\ KeyInsertDone(i) =>
              KeyRecordsOf(i) = {[id |-> i, key_id |-> docId[i],
                                  encrypted_dek |-> EncryptDEK(mem[i].dek),
                                  inv |-> i]}
    /\ \A k1, k2 \in keys :
         (k1.encrypted_dek = k2.encrypted_dek \/ k1.id = k2.id) => k1 = k2
    /\ \A o1, o2 \in encBucket :
         o1.dek = o2.dek => (o1 = o2 /\ o1.path[1] = o2.path[1])

\* two encryption events have each inserted a key record and uploaded a
\* ciphertext
C15_Witness ==
    \E i, j \in Invocations :
        /\ i # j
        /\ ObjectsOf(i) # {} /\ KeyRecordsOf(i) # {}
        /\ ObjectsOf(j) # {} /\ KeyRecordsOf(j) # {}

\* the document_encryption rows of a document
MetasOf(d) == {m \in metas : m.document_id = d}

\* an invocation is between its metadata insert and its document update
FlipPending(d) ==
    \E i \in Invocations : docId[i] = d /\ pc[i] = "updatedoc"

CallsFor(d) == {n \in 1..Len(enqLog) : enqLog[n].document_id = d}

\* the rows of a document that were inserted in the default status
EnqueuedRowsOf(d) ==
    {t \in TaskIds : /\ queue[t].document_id = d
                     /\ audit[t].log[1] = QueueDefaultStatus}

\* every call returned the id of a row of its document inserted as queued, no
\* two calls returned the same id, and k calls for a document made k rows
EnqueueLogConsistent ==
    /\ \A n \in 1..Len(enqLog) :
         /\ enqLog[n].id \in EnqueuedRowsOf(enqLog[n].document_id)
         /\ \A m \in 1..Len(enqLog) : m # n => enqLog[m].id # enqLog[n].id
    /\ \A d \in Docs :
         Cardinality(CallsFor(d)) = Cardinality(EnqueuedRowsOf(d))

\* a call appends one row, in status queued, for its document, returns the
\* row's id, which no existing row has, and changes no existing row
EnqueueStep ==
    enqLog' # enqLog =>
        /\ Len(enqLog') = Len(enqLog) + 1
        /\ Len(queue') = Len(queue) + 1
        /\ queue'[Len(queue')] =
             NewRow(enqLog'[Len(enqLog')].document_id, QueueDefaultStatus)
        /\ enqLog'[Len(enqLog')].id = Len(queue')
        /\ enqLog'[Len(enqLog')].id \notin TaskIds
        /\ \A t \in TaskIds : queue'[t] = queue[t]

\* C19: enqueue_document_processing does not deduplicate: every call inserts
\* exactly one new row with status queued for the given document, returns
\* that row's id, distinct from every existing id, and leaves the existing
\* rows unchanged, so k calls for a document yield k rows.
C19_EnqueueDoesNotDeduplicate ==
    []EnqueueLogConsistent /\ [][EnqueueStep]_vars

\* enqueue was called twice for one document
C19_Witness ==
    \E d \in Docs : Cardinality(CallsFor(d)) = 2

\* the steps of the handler for one invocation
HandlerStep(i) ==
    \/ Request(i) \/ SelectQueueItem(i) \/ ClaimTask(i) \/ LoadAndDownload(i)
    \/ InsertKeyRecord(i) \/ EncryptAndUpload(i) \/ InsertMetadata(i)
    \/ UpdateDocument(i) \/ MarkCompleted(i)

\* an invocation that has ended has answered, with 200 when no step raised
\* and with 500 when one did; one that has not ended has not answered and has
\* a step to take
ResponseMatches ==
    \A i \in Invocations :
        /\ pc[i] = "done" =>
             response[i] = (IF err[i] = "none" THEN 200 ELSE 500)
        /\ pc[i] # "done" => response[i] = 0 /\ err[i] = "none"
        /\ pc[i] \notin {"idle", "done"} => ENABLED HandlerStep(i)

\* a step changes a task only when it is a step of an invocation for the
\* task's document
TaskFrame ==
    \A t \in TaskIds :
        queue'[t] # queue[t] =>
            \E i \in Invocations :
                pc'[i] # pc[i] /\ docId[i] = queue[t].document_id

\* C20: every invocation ends with an HTTP response whichever step fails, 200
\* when no step raised and 500 otherwise; no failure leaves an invocation
\* without a response; and no invocation, failed or not, changes a task of
\* another document.
C20_PerTaskIsolation ==
    []ResponseMatches /\ [][TaskFrame]_vars

\* one invocation has failed with 500 and another, for a task of another
\* document, has answered 200
C20_Witness ==
    \E i, j \in Invocations :
        /\ response[i] = 500 /\ err[i] \notin {"none", "request", "select"}
        /\ response[j] = 200
        /\ docId[i] # docId[j]

\* what a step of invocation i may do: it writes to the tables and buckets
\* only with a task in hand, it gets the task only from a select that matched
\* exactly that row, and a request without documentId or a select that does
\* not match exactly one row ends it with status 500
GuardedStep(i) ==
    /\ <<dbVars, plainBucket>>' # <<dbVars, plainBucket>> =>
         queueItem[i] # NoTask
    /\ queueItem'[i] # queueItem[i] =>
         /\ pc[i] = "select"
         /\ docId[i] # NoDoc
         /\ Matching(docId[i]) = {queueItem'[i]}
    /\ (pc[i] = "idle" /\ docId'[i] = NoDoc) =>
         /\ pc'[i] = "done"
         /\ response'[i] = 500
    /\ (pc[i] = "select" /\ Cardinality(Matching(docId[i])) # 1) =>
         /\ pc'[i] = "done"
         /\ response'[i] = 500
         /\ queueItem'[i] = NoTask

\* C27: an invocation changes the queue, the documents, the key records, the
\* metadata or the buckets only when its request named a document that had
\* exactly one row in the status the processor selects on; without documentId,
\* with no matching row or with two or more it answers with an error and
\* changes nothing.
C27_StateChangeNeedsSingleMatch ==
    [][\A i \in Invocations : pc'[i] # pc[i] => GuardedStep(i)]_vars

\* an invocation has ended at its select, which found two rows of its document
C27_Witness ==
    \E i \in Invocations :
        /\ pc[i] = "done" /\ err[i] = "select"
        /\ <<i, "select">> \notin failedCalls
        /\ Cardinality(Matching(docId[i])) = 2

MasterKeyChars == 32
\* length in bytes of the AES-GCM authentication tag, the tail of the output
TagLen == 16
\* length in bytes of the iv that crypto.getRandomValues fills
IvLen == 12
\* the code point of '0', the pad character of the master key
PadChar == 48

\* the sum of the elements of a byte array
RECURSIVE SumBytes(_)
SumBytes(b) == IF b = <<>> THEN 0 ELSE b[1] + SumBytes(Tail(b))

\* the arrays of a sequence of arrays, one after the other
RECURSIVE Flatten(_)
Flatten(ss) == IF ss = <<>> THEN <<>> ELSE ss[1] \o Flatten(Tail(ss))

\* TextEncoder.encode of one code point (UTF-8, up to two bytes)
Utf8OfChar(c) ==
    IF c < 128 THEN <<c>> ELSE <<192 + (c \div 64), 128 + (c % 64)>>

\* TextEncoder.encode
TextEncode(str) == Flatten([k \in 1..Len(str) |-> Utf8OfChar(str[k])])

\* TextDecoder.decode (UTF-8, up to two bytes a code point; a byte that
\* starts no sequence decodes to U+FFFD)
RECURSIVE TextDecode(_)
TextDecode(b) ==
    IF b = <<>> THEN <<>>
    ELSE IF b[1] < 128 THEN <<b[1]>> \o TextDecode(Tail(b))
    ELSE IF b[1] >= 192 /\ b[1] < 224 /\ Len(b) >= 2 /\ b[2] >= 128 /\ b[2] < 192
         THEN <<(b[1] - 192) * 64 + (b[2] - 128)>> \o TextDecode(Tail(Tail(b)))
    ELSE <<65533>> \o TextDecode(Tail(b))

\* String.prototype.padEnd(n, pad) with a pad of one character
PadEnd(str, n, pad) ==
    IF Len(str) >= n THEN str
    ELSE str \o [k \in 1..(n - Len(str)) |-> pad]

\* an index argument of slice brought into 0..len
SliceIndex(k, len) ==
    IF k < 0 THEN (IF len + k < 0 THEN 0 ELSE len + k)
    ELSE (IF k > len THEN len ELSE k)

\* slice(from, to) of a string or a typed array
Slice(a, from, to) ==
    SubSeq(a, SliceIndex(from, Len(a)) + 1, SliceIndex(to, Len(a)))

\* slice(from): up to the end
SliceFrom(a, from) == Slice(a, from, Len(a))

\* b.toString(16) of a number below 16, as a code point
HexDigit(n) == IF n < 10 THEN 48 + n ELSE 87 + n

\* KMSService.uint8ArrayToHex: two lower-case hex digits a byte
uint8ArrayToHex(bytes) ==
    Flatten([k \in 1..Len(bytes) |->
               <<HexDigit(bytes[k] \div 16), HexDigit(bytes[k] % 16)>>])

\* the value of a hex digit, -1 for any other character
HexValue(c) ==
    IF c >= 48 /\ c <= 57 THEN c - 48
    ELSE IF c >= 97 /\ c <= 102 THEN c - 87
    ELSE IF c >= 65 /\ c <= 70 THEN c - 55
    ELSE -1

\* parseInt(two characters, 16) as stored into a Uint8Array: the digits up to
\* the first character that is none; NaN is stored as 0
ParseHexPair(c1, c2) ==
    IF HexValue(c1) < 0 THEN 0
    ELSE IF HexValue(c2) < 0 THEN HexValue(c1)
    ELSE 16 * HexValue(c1) + HexValue(c2)

\* KMSService.hexToUint8Array: hex.length / 2 bytes (the length is truncated)
hexToUint8Array(hex) ==
    [k \in 1..(Len(hex) \div 2) |-> ParseHexPair(hex[2 * k - 1], hex[2 * k])]

\* the outcome of a call: the value it returned, or the name of the error it
\* threw
Ok(v) == [ok |-> TRUE, value |-> v, error |-> ""]
Fail(e) == [ok |-> FALSE, value |-> <<>>, error |-> e]

\* 'default-key-for-dev'
DefaultMasterKey ==
    <<100, 101, 102, 97, 117, 108, 116, 45, 107, 101, 121, 45, 102, 111, 114,
      45, 100, 101, 118>>

\* this.masterKey = Deno.env.get('MASTER_ENCRYPTION_KEY') || 'default-key-for-dev'
\* (an unset or empty variable gives the default)
MasterKeyOf(env) == IF env = <<>> THEN DefaultMasterKey ELSE env

\* encoder.encode(this.masterKey.padEnd(32, '0').slice(0, 32))
RawMasterKey(master) ==
    TextEncode(Slice(PadEnd(master, MasterKeyChars, PadChar), 0, MasterKeyChars))

\* crypto.subtle.importKey('raw', bytes, {name: 'AES-GCM'}, ...): an AES key
\* has 16, 24 or 32 bytes, any other length is rejected with a DataError
ImportableKey(raw) == Len(raw) \in {16, 24, 32}

\* AES-GCM as far as the code depends on it: the output is a ciphertext as
\* long as the plaintext, followed by a tag of TagLen bytes that depends on
\* key, iv and ciphertext
KeyStreamByte(key, iv, k) == (SumBytes(key) + SumBytes(iv) + k) % 256

GcmCiphertext(key, iv, pt) ==
    [k \in 1..Len(pt) |-> (pt[k] + KeyStreamByte(key, iv, k)) % 256]

GcmTag(key, iv, ct) ==
    [j \in 1..TagLen |->
       (SumBytes(key) + 3 * SumBytes(iv) + SumBytes(ct) + Len(ct) + j) % 256]

\* crypto.subtle.encrypt({name: 'AES-GCM', iv}, key, data)
AesGcmEncrypt(key, iv, pt) ==
    GcmCiphertext(key, iv, pt) \o GcmTag(key, iv, GcmCiphertext(key, iv, pt))

\* crypto.subtle.decrypt({name: 'AES-GCM', iv}, key, data): rejects with an
\* OperationError when the tag does not verify
AesGcmDecrypt(key, iv, data) ==
    IF Len(data) < TagLen THEN Fail("OperationError")
    ELSE LET ct == SubSeq(data, 1, Len(data) - TagLen)
             tag == SubSeq(data, Len(data) - TagLen + 1, Len(data))
         IN IF tag # GcmTag(key, iv, ct) THEN Fail("OperationError")
            ELSE Ok([k \in 1..Len(ct) |->
                       (ct[k] + 256 - KeyStreamByte(key, iv, k)) % 256])

\* a property that is missing from a parsed object
Undefined == <<-1>>

\* JSON.stringify({encrypted, iv}): the text of an object with the two strings
JsonStringify(encrypted, iv) ==
    [kind |-> "object", encrypted |-> encrypted, iv |-> iv]

\* a text that JSON.parse rejects
NotJson == [kind |-> "garbage", encrypted |-> Undefined, iv |-> Undefined]

\* an encryptDEK that leaves the iv out of what it returns
encryptDEKWithoutIv(dek, master, iv) ==
    IF ~ImportableKey(RawMasterKey(master)) THEN Fail("DataError")
    ELSE Ok(JsonStringify(
              uint8ArrayToHex(AesGcmEncrypt(RawMasterKey(master), iv,
                                            TextEncode(dek))),
              Undefined))

\* KMSService.encryptDEK, with the iv that crypto.getRandomValues returned
encryptDEK(dek, master, iv) ==
    IF ~ImportableKey(RawMasterKey(master)) THEN Fail("DataError")
    ELSE Ok(JsonStringify(
              uint8ArrayToHex(AesGcmEncrypt(RawMasterKey(master), iv,
                                            TextEncode(dek))),
              uint8ArrayToHex(iv)))

\* KMSService.decryptDEK: JSON.parse, importKey, hexToUint8Array(iv),
\* hexToUint8Array(encrypted), decrypt, decode, each throwing its own error
decryptDEK(encryptedDEK, master) ==
    IF encryptedDEK.kind # "object" THEN Fail("SyntaxError")
    ELSE IF ~ImportableKey(RawMasterKey(master)) THEN Fail("DataError")
    ELSE IF encryptedDEK.iv = Undefined THEN Fail("TypeError")
    ELSE IF encryptedDEK.encrypted = Undefined THEN Fail("TypeError")
    ELSE LET r == AesGcmDecrypt(RawMasterKey(master),
                                hexToUint8Array(encryptedDEK.iv),
                                hexToUint8Array(encryptedDEK.encrypted))
         IN IF r.ok THEN Ok(TextDecode(r.value)) ELSE r

\* the first TagLen bytes of the AEAD output
AuthTagAtHead(encryptedArray) == Slice(encryptedArray, 0, TagLen)

\* encryptedArray.slice(-16)
AuthTagOf(encryptedArray) == SliceFrom(encryptedArray, 0 - TagLen)

\* encryptedArray.slice(0, -16)
CiphertextOf(encryptedArray) == Slice(encryptedArray, 0, 0 - TagLen)

\* KMSService.encryptFile, with the iv that crypto.getRandomValues returned
encryptFile(data, dek, iv) ==
    IF ~ImportableKey(hexToUint8Array(dek)) THEN Fail("DataError")
    ELSE LET encryptedArray == AesGcmEncrypt(hexToUint8Array(dek), iv, data)
         IN Ok([encryptedData |-> CiphertextOf(encryptedArray),
                iv |-> uint8ArrayToHex(iv),
                authTag |-> uint8ArrayToHex(AuthTagOf(encryptedArray))])

\* ---------------------------------------------- KMSService: sample inputs
\* number of bytes of a DEK (generateDEK), written as twice as many hex digits
DekBytes == 32

\* values of MASTER_ENCRYPTION_KEY: unset, 'key', forty times 'm', and one
\* with a character outside ASCII
MasterEnvSamples ==
    {<<>>, <<107, 101, 121>>, [k \in 1..40 |-> 109], <<233, 107>>}

\* DEKs: two that generateDEK can return, the empty string, and a string
\* with a character outside ASCII
DekSamples ==
    {[k \in 1..(2 * DekBytes) |-> 97],
     [k \in 1..(2 * DekBytes) |-> IF k % 2 = 1 THEN 49 ELSE 102],
     <<>>, <<233, 97>>}

\* ivs that crypto.getRandomValues can return
IvSamples == {[k \in 1..IvLen |-> 0], [k \in 1..IvLen |-> (17 * k) % 256]}

\* file contents: empty, shorter than a tag, longer than a tag
DataSamples == {<<>>, <<0>>, <<255, 1, 128>>, [k \in 1..(TagLen + 1) |-> k]}

\* a wrapped DEK whose last hex digit was changed
Tampered(w) ==
    [w EXCEPT !.encrypted =
        [@ EXCEPT ![Len(@)] = IF @ = 48 THEN 49 ELSE 48]]

\* the malformed values: a text that is no JSON, and objects that lack a field
Malformed(w) ==
    {NotJson, [w EXCEPT !.iv = Undefined], [w EXCEPT !.encrypted = Undefined]}

\* --------------------------------------------------- KMSService: actions
\* a KMSService constructed under some environment, with the arguments of
\* the calls to come
InitKMS ==
    /\ ProcessorInit
    /\ up = UploaderRest /\ rag = RagRest /\ auth = AuthRest /\ chat = ChatRest
    /\ kms \in {[KmsRest EXCEPT !.master = MasterKeyOf(env), !.dek = dek,
                                !.iv = iv, !.data = data] :
                  env \in MasterEnvSamples, dek \in DekSamples,
                  iv \in IvSamples, data \in DataSamples}

\* wrapped = await kms.encryptDEK(dek)
KmsEncryptDEK ==
    /\ kms.wrapped = NotRun
    /\ kms' = [kms EXCEPT !.wrapped = encryptDEK(kms.dek, kms.master, kms.iv)]
    /\ UNCHANGED <<procVars, up, rag, auth, chat>>

\* the stored value comes back for unwrapping: as it was written, with a
\* digit changed, or malformed
KmsPresent ==
    /\ kms.wrapped.ok
    /\ kms.input = NotRun
    /\ \E text \in {kms.wrapped.value, Tampered(kms.wrapped.value)}
                     \cup Malformed(kms.wrapped.value) :
         kms' = [kms EXCEPT !.input = Ok(text)]
    /\ UNCHANGED <<procVars, up, rag, auth, chat>>

\* await kms.decryptDEK(encryptedDEK)
KmsDecryptDEK ==
    /\ kms.input.ok
    /\ kms.unwrapped = NotRun
    /\ kms' = [kms EXCEPT !.unwrapped = decryptDEK(kms.input.value, kms.master)]
    /\ UNCHANGED <<procVars, up, rag, auth, chat>>

\* await kms.encryptFile(data, dek)
KmsEncryptFile ==
    /\ kms.file = NotRun
    /\ kms' = [kms EXCEPT !.file = encryptFile(kms.data, kms.dek, kms.iv)]
    /\ UNCHANGED <<procVars, up, rag, auth, chat>>

NextKMS ==
    \/ KmsEncryptDEK
    \/ KmsPresent
    \/ KmsDecryptDEK
    \/ KmsEncryptFile

SpecKMS == InitKMS /\ [][NextKMS]_vars

\* the master key gives an AES key: its first 32 characters, padded with '0',
\* are 16, 24 or 32 bytes in UTF-8
MasterKeyUsable(master) == ImportableKey(RawMasterKey(master))

\* the stored value was presented as it was written
PresentedVerbatim == kms.input.ok /\ kms.input = kms.wrapped

\* C23 as stated: for every DEK and every master secret encryptDEK returns a
\* wrapped DEK, and decryptDEK of that value alone returns the DEK.
C23_RoundTripEveryMaster ==
    /\ kms.wrapped # NotRun => kms.wrapped.ok
    /\ (PresentedVerbatim /\ kms.unwrapped # NotRun) =>
          kms.unwrapped = Ok(kms.dek)

\* C23, amended: for every DEK and every master secret that gives an AES key,
\* decryptDEK(encryptDEK(dek)) returns dek, from the wrapped value alone; with
\* any other master secret encryptDEK fails.
C23_RoundTripUsableMaster ==
    /\ kms.wrapped # NotRun => (kms.wrapped.ok <=> MasterKeyUsable(kms.master))
    /\ (PresentedVerbatim /\ kms.unwrapped # NotRun) =>
          kms.unwrapped = Ok(kms.dek)

\* a DEK with a character outside ASCII was wrapped under a padded master key
\* and unwrapped from the value as written
C23_Witness ==
    /\ PresentedVerbatim
    /\ kms.unwrapped.ok
    /\ kms.dek = <<233, 97>>
    /\ kms.master = <<107, 101, 121>>

\* a well-formed value other than the one written was presented
PresentedTampered ==
    /\ kms.input.ok
    /\ kms.input # kms.wrapped
    /\ kms.input.value.kind = "object"
    /\ kms.input.value.iv # Undefined
    /\ kms.input.value.encrypted # Undefined

\* C24: decryptDEK fails in the same observable way on a well-formed wrapped
\* DEK whose tag does not verify and on a malformed one (no JSON, a missing
\* field).
C24_ErrorSurfaceUniform ==
    (PresentedTampered /\ kms.unwrapped # NotRun) =>
        /\ ~kms.unwrapped.ok
        /\ \A m \in Malformed(kms.wrapped.value) :
             decryptDEK(m, kms.master).error = kms.unwrapped.error

\* C25: encryptFile returns iv, authTag and ciphertext as three fields;
\* authTag is the last 16 bytes of the AEAD output and ciphertext the bytes
\* before them, so that ciphertext followed by authTag is the AEAD output and
\* the ciphertext is as long as the plaintext, the empty plaintext included.
C25_TagSplitExact ==
    kms.file.ok =>
        LET out == AesGcmEncrypt(hexToUint8Array(kms.dek), kms.iv, kms.data)
            f == kms.file.value
        IN /\ DOMAIN f = {"encryptedData", "iv", "authTag"}
           /\ Len(hexToUint8Array(f.authTag)) = TagLen
           /\ hexToUint8Array(f.authTag) =
                SubSeq(out, Len(out) - TagLen + 1, Len(out))
           /\ f.encryptedData \o hexToUint8Array(f.authTag) = out
           /\ Len(f.encryptedData) = Len(kms.data)
           /\ f.iv = uint8ArrayToHex(kms.iv)

\* the empty file was encrypted
C25_Witness == kms.file.ok /\ kms.data = <<>>

\* ======================================================= DocumentUploader
\* One onDrop of the DocumentUploader with the rows of its document in
\* processing_queue, the realtime server and the websocket between them.
\* Every await of onDrop is a step.  The server sends an UPDATE event to a
\* channel from the moment it has registered the channel's join until it has
\* handled its leave; the socket delivers in order, so what was sent before
\* the leave was handled reaches the callback.

InitUploader ==
    /\ ProcessorInit
    /\ kms = KmsRest /\ rag = RagRest /\ auth = AuthRest /\ chat = ChatRest
    /\ up = [UploaderRest EXCEPT !.pc = "upload"]

\* catch (error): toast 'Upload failed'; nothing was subscribed
UploadFailed == up' = [up EXCEPT !.pc = "failed"]

\* await supabase.storage.from('documents').upload(filePath, file)
UploadFile ==
    /\ up.pc = "upload"
    /\ \/ up' = [up EXCEPT !.pc = "insert"]
       \/ UploadFailed
    /\ UNCHANGED <<procVars, kms, rag, auth, chat>>

\* await supabase.from('documents').insert({..., status: 'uploaded'})
InsertDocument ==
    /\ up.pc = "insert"
    /\ \/ up' = [up EXCEPT !.pc = "enqueue"]
       \/ UploadFailed
    /\ UNCHANGED <<procVars, kms, rag, auth, chat>>

\* await supabase.rpc('enqueue_document_processing', {p_document_id, ...}):
\* the row is there, in the default status, when the call returns
EnqueueRpc ==
    /\ up.pc = "enqueue"
    /\ \/ up' = [up EXCEPT !.pc = "subscribe", !.task = QueueDefaultStatus]
       \/ UploadFailed
    /\ UNCHANGED <<procVars, kms, rag, auth, chat>>

\* supabase.channel('processing_updates').on('postgres_changes', {event:
\* 'UPDATE', table: 'processing_queue', filter: document_id=eq.<id>}, callback)
\* .subscribe(): the join is sent, nothing is awaited
Subscribe ==
    /\ up.pc = "subscribe"
    /\ up' = [up EXCEPT !.pc = "done", !.sub = "joining"]
    /\ UNCHANGED <<procVars, kms, rag, auth, chat>>

\* the realtime server registers the channel
ServerJoin ==
    /\ up.sub = "joining"
    /\ up' = [up EXCEPT !.sub = "joined"]
    /\ UNCHANGED <<procVars, kms, rag, auth, chat>>

\* the processor's update({status: 'processing'}) or update({status:
\* 'completed'}) on a row of the document (a second one comes from a racing
\* invocation or from a second task); an invocation sets processing first.
\* The server sends the event to the channel if it has it registered.
UpdateTaskStatus(s) ==
    /\ up.task # "none"
    /\ up.updates < MaxStatusUpdates
    /\ s = "completed" => up.task # QueueDefaultStatus
    /\ up' = [up EXCEPT !.task = s,
                        !.updates = @ + 1,
                        !.inflight = IF up.sub \in {"joined", "leaving"}
                                     THEN Append(@, s) ELSE @]
    /\ UNCHANGED <<procVars, kms, rag, auth, chat>>

\* the callback runs on the next event of the socket: for payload.new.status
\* completed or failed it shows the toast and calls subscription.unsubscribe(),
\* which sends the leave and is not awaited
Deliver ==
    /\ up.inflight # <<>>
    /\ up' = [up EXCEPT !.inflight = Tail(@),
                        !.toasts = IF Head(up.inflight) \in TerminalStatuses
                                   THEN @ + 1 ELSE @,
                        !.sub = IF /\ Head(up.inflight) \in TerminalStatuses
                                   /\ @ = "joined"
                                THEN "leaving" ELSE @]
    /\ UNCHANGED <<procVars, kms, rag, auth, chat>>

\* the realtime server handles the leave
ServerLeave ==
    /\ up.sub = "leaving"
    /\ up' = [up EXCEPT !.sub = "closed"]
    /\ UNCHANGED <<procVars, kms, rag, auth, chat>>

NextUploader ==
    \/ UploadFile
    \/ InsertDocument
    \/ EnqueueRpc
    \/ Subscribe
    \/ ServerJoin
    \/ \E s \in {"processing", "completed"} : UpdateTaskStatus(s)
    \/ Deliver
    \/ ServerLeave

\* the browser's event loop runs every continuation and every callback that
\* is due, and the server handles every message it was sent; the processor
\* is under no obligation
SpecUploader ==
    /\ InitUploader
    /\ [][NextUploader]_vars
    /\ WF_vars(UploadFile) /\ WF_vars(InsertDocument) /\ WF_vars(EnqueueRpc)
    /\ WF_vars(Subscribe) /\ WF_vars(ServerJoin) /\ WF_vars(Deliver)
    /\ WF_vars(ServerLeave)

MatchCount == 5
\* similarDocs when the search returned an error (data is null)
NullDocs == -1
\* conversationId that is absent from the request body
NoConversation == 0
\* the id of a conversation that exists before the request
SuppliedConversation == 1
\* the id the ai_conversations insert gives the row it creates
CreatedConversation == 2

\* the response before the handler has returned
NoRagResponse ==
    [status |-> 0, response |-> "", sourcesCount |-> 0,
     conversationId |-> NoConversation, aiProvider |-> ""]

\* the request bodies: message and caseId present or not, conversationId
\* absent or that of an existing conversation, aiProvider absent or named
RagBodies ==
    [message : BOOLEAN, caseId : BOOLEAN,
     conversationId : {NoConversation, SuppliedConversation},
     aiProvider : {"absent", "openai", "gemini"}]

InitRag ==
    /\ ProcessorInit
    /\ kms = KmsRest /\ up = UploaderRest /\ auth = AuthRest /\ chat = ChatRest
    /\ rag \in {[pc |-> "parse", body |-> b, aiProvider |-> "", calls |-> <<>>,
                 similarDocs |-> NullDocs, aiResponse |-> "",
                 conversations |-> {SuppliedConversation},
                 currentConversationId |-> NoConversation,
                 fault |-> "none", response |-> NoRagResponse] :
                  b \in RagBodies}

\* catch (error): the 500 response with success false and error.message
RagCatch(step) ==
    rag' = [rag EXCEPT !.pc = "done", !.fault = step,
                       !.response = [NoRagResponse EXCEPT !.status = 500]]

\* const {message, caseId, conversationId, aiProvider = 'openai'} =
\* await req.json(); if (!message || !caseId) throw
RagParse ==
    /\ rag.pc = "parse"
    /\ IF rag.body.message /\ rag.body.caseId
       THEN rag' = [rag EXCEPT !.pc = "embed",
                               !.aiProvider = IF rag.body.aiProvider = "absent"
                                              THEN "openai"
                                              ELSE rag.body.aiProvider]
       ELSE RagCatch("parse")
    /\ UNCHANGED <<procVars, kms, up, auth, chat>>

\* await ai.generateEmbedding(message), which throws when the provider's
\* answer is not ok
RagEmbedding ==
    /\ rag.pc = "embed"
    /\ \/ rag' = [rag EXCEPT !.pc = "search",
                             !.calls = Append(@, "embedding")]
       \/ rag' = [rag EXCEPT !.pc = "done", !.fault = "embed",
                             !.calls = Append(@, "embedding"),
                             !.response = [NoRagResponse EXCEPT !.status = 500]]
    /\ UNCHANGED <<procVars, kms, up, auth, chat>>

\* await supabaseClient.rpc('search_similar_documents', ...): up to
\* p_match_count rows, or an error, which is logged and leaves data null
RagSearch ==
    /\ rag.pc = "search"
    /\ \E n \in {NullDocs} \cup 0..MatchCount :
         rag' = [rag EXCEPT !.pc = "generate",
                            !.calls = Append(@, "search"),
                            !.similarDocs = n]
    /\ UNCHANGED <<procVars, kms, up, auth, chat>>

\* await ai.generateResponse(message, context)
RagGenerate ==
    /\ rag.pc = "generate"
    /\ \/ rag' = [rag EXCEPT !.pc = "conversation",
                             !.calls = Append(@, "generate"),
                             !.aiResponse = "answer"]
       \/ rag' = [rag EXCEPT !.pc = "done", !.fault = "generate",
                             !.calls = Append(@, "generate"),
                             !.response = [NoRagResponse EXCEPT !.status = 500]]
    /\ UNCHANGED <<procVars, kms, up, auth, chat>>

\* let currentConversationId = conversationId; if it is not set, insert into
\* ai_conversations and take the new row's id; throw on convError
RagConversation ==
    /\ rag.pc = "conversation"
    /\ IF rag.body.conversationId # NoConversation
       THEN rag' = [rag EXCEPT !.pc = "save",
                               !.currentConversationId = rag.body.conversationId]
       ELSE \/ rag' = [rag EXCEPT !.pc = "save",
                                  !.conversations = @ \cup {CreatedConversation},
                                  !.currentConversationId = CreatedConversation]
            \/ RagCatch("conversation")
    /\ UNCHANGED <<procVars, kms, up, auth, chat>>

\* a count that is always 0
SourcesCountZero(similarDocs) == 0

\* similarDocs?.length || 0
SourcesCount(similarDocs) == IF similarDocs = NullDocs THEN 0 ELSE similarDocs

\* the two inserts into ai_messages, whose results are not inspected, then
\* the 200 response
RagSaveAndRespond ==
    /\ rag.pc = "save"
    /\ rag' = [rag EXCEPT
                 !.pc = "done",
                 !.response = [status |-> 200,
                               response |-> rag.aiResponse,
                               sourcesCount |-> SourcesCount(rag.similarDocs),
                               conversationId |-> rag.currentConversationId,
                               aiProvider |-> rag.aiProvider]]
    /\ UNCHANGED <<procVars, kms, up, auth, chat>>

NextRag ==
    \/ RagParse
    \/ RagEmbedding
    \/ RagSearch
    \/ RagGenerate
    \/ RagConversation
    \/ RagSaveAndRespond

SpecRag == InitRag /\ [][NextRag]_vars

\* the calls of a request in the order the claim gives
RagCallOrder == <<"embedding", "search", "generate">>

\* C22: for a request with message and caseId the handler calls the embedding
\* function, then the similarity search, then the response generation; when
\* no call fails it returns 200 with response, sourcesCount, conversationId
\* and aiProvider, where conversationId is the caller's when present and
\* otherwise the id of a conversation created in this request, and
\* sourcesCount is the number of matches the search returned.
C22_RagCallOrderAndResult ==
    /\ Len(rag.calls) <= Len(RagCallOrder)
    /\ rag.calls = SubSeq(RagCallOrder, 1, Len(rag.calls))
    /\ rag.calls # <<>> => rag.body.message /\ rag.body.caseId
    /\ (rag.pc = "done" /\ rag.fault = "none") =>
         /\ rag.response.status = 200
         /\ rag.calls = RagCallOrder
    /\ rag.response.status = 200 =>
         /\ rag.fault = "none"
         /\ rag.response.response = "answer"
         /\ rag.response.sourcesCount =
              (IF rag.similarDocs = NullDocs THEN 0 ELSE rag.similarDocs)
         /\ rag.response.aiProvider =
              (IF rag.body.aiProvider = "absent" THEN "openai"
               ELSE rag.body.aiProvider)
         /\ IF rag.body.conversationId # NoConversation
            THEN /\ rag.response.conversationId = rag.body.conversationId
                 /\ rag.conversations = {SuppliedConversation}
            ELSE /\ rag.response.conversationId # SuppliedConversation
                 /\ rag.response.conversationId \in rag.conversations

\* a request without conversationId was answered after a search with matches
C22_Witness ==
    /\ rag.response.status = 200
    /\ rag.body.conversationId = NoConversation
    /\ rag.similarDocs = MatchCount

\* =============================================================== AuthGuard
\* One mounted AuthGuard: its two pieces of state, the router's path, the
\* getSession promise and the auth events waiting for the callback.

\* the most auth state changes of one behaviour
MaxAuthEvents == 3

AuthPath == "/auth"
HomePath == "/"
Paths == {AuthPath, HomePath, "/cases"}
AuthEvents == {"INITIAL_SESSION", "SIGNED_IN", "SIGNED_OUT", "TOKEN_REFRESHED"}

\* useState<User | null>(null), useState(true); getSession() and
\* onAuthStateChange() of the effect have been called, the first render
\* showed the spinner
InitAuth ==
    /\ ProcessorInit
    /\ kms = KmsRest /\ up = UploaderRest /\ rag = RagRest /\ chat = ChatRest
    /\ auth \in {[mounted |-> TRUE, user |-> FALSE, loading |-> TRUE,
                  path |-> p, session |-> s, getSession |-> "pending",
                  fetched |-> FALSE, events |-> <<>>, emitted |-> 0,
                  rendered |-> "spinner", dirty |-> FALSE] :
                    p \in Paths, s \in BOOLEAN}

\* the session after an auth state change
SessionAfter(e, session) ==
    CASE e = "SIGNED_IN" -> TRUE
      [] e = "SIGNED_OUT" -> FALSE
      [] OTHER -> session

\* the auth client changes state and queues the event for its subscribers
EmitAuthEvent ==
    /\ auth.mounted
    /\ auth.emitted < MaxAuthEvents
    /\ \E e \in AuthEvents :
         /\ e = "TOKEN_REFRESHED" => auth.session
         /\ e = "SIGNED_OUT" => auth.session
         /\ e = "INITIAL_SESSION" => auth.emitted = 0
         /\ auth' = [auth EXCEPT
                       !.session = SessionAfter(e, auth.session),
                       !.emitted = @ + 1,
                       !.events = Append(@, [event |-> e,
                                   user |-> SessionAfter(e, auth.session)])]
    /\ UNCHANGED <<procVars, kms, up, rag, chat>>

\* the callback given to onAuthStateChange
OnAuthStateChange ==
    /\ auth.mounted
    /\ auth.events # <<>>
    /\ LET e == Head(auth.events)
       IN  auth' = [auth EXCEPT
                      !.events = Tail(@),
                      !.user = e.user,
                      !.loading = FALSE,
                      !.path = IF e.event = "SIGNED_OUT" THEN AuthPath ELSE @,
                      !.dirty = TRUE]
    /\ UNCHANGED <<procVars, kms, up, rag, chat>>

\* supabase.auth.getSession() reads the stored session
GetSessionRead ==
    /\ auth.getSession = "pending"
    /\ auth' = [auth EXCEPT !.getSession = "read", !.fetched = auth.session]
    /\ UNCHANGED <<procVars, kms, up, rag, chat>>

\* the continuation of await supabase.auth.getSession(); after the unmount
\* the setters do nothing
GetSessionResolve ==
    /\ auth.getSession = "read"
    /\ auth' = IF auth.mounted
               THEN [auth EXCEPT !.getSession = "done", !.user = auth.fetched,
                                 !.loading = FALSE, !.dirty = TRUE]
               ELSE [auth EXCEPT !.getSession = "done"]
    /\ UNCHANGED <<procVars, kms, up, rag, chat>>

\* a render that never shows the spinner
RenderWithoutSpinner(loading, user, path) ==
    CASE ~user /\ path # AuthPath -> [view |-> "null", path |-> AuthPath]
      [] user /\ path = AuthPath -> [view |-> "null", path |-> HomePath]
      [] OTHER -> [view |-> "children", path |-> path]

\* the body of the component after the hooks: what it returns and the path
\* after the navigate() it may have called
RenderGuard(loading, user, path) ==
    CASE loading -> [view |-> "spinner", path |-> path]
      [] ~loading /\ ~user /\ path # AuthPath ->
           [view |-> "null", path |-> AuthPath]
      [] ~loading /\ user /\ path = AuthPath ->
           [view |-> "null", path |-> HomePath]
      [] OTHER -> [view |-> "children", path |-> path]

\* React renders the component again after a state or location change
Render ==
    /\ auth.mounted
    /\ auth.dirty
    /\ LET out == RenderGuard(auth.loading, auth.user, auth.path)
       IN  auth' = [auth EXCEPT !.rendered = out.view,
                                !.path = out.path,
                                !.dirty = out.path # auth.path]
    /\ UNCHANGED <<procVars, kms, up, rag, chat>>

\* the location changes from outside the guard (a link, the address bar)
LocationChange ==
    /\ auth.mounted
    /\ \E p \in Paths \ {auth.path} :
         auth' = [auth EXCEPT !.path = p, !.dirty = TRUE]
    /\ UNCHANGED <<procVars, kms, up, rag, chat>>

\* the effect's cleanup: subscription.unsubscribe()
Unmount ==
    /\ auth.mounted
    /\ auth' = [auth EXCEPT !.mounted = FALSE, !.events = <<>>,
                            !.rendered = "none", !.dirty = FALSE]
    /\ UNCHANGED <<procVars, kms, up, rag, chat>>

NextAuth ==
    \/ EmitAuthEvent
    \/ OnAuthStateChange
    \/ GetSessionRead
    \/ GetSessionResolve
    \/ Render
    \/ LocationChange
    \/ Unmount

SpecAuth == InitAuth /\ [][NextAuth]_vars

\* what is on screen is the render of the present state and location
AuthSettled == auth.mounted /\ ~auth.dirty

\* the callback runs for a SIGNED_OUT event
SignedOutHandled ==
    /\ auth.mounted /\ auth'.mounted
    /\ auth.events # <<>>
    /\ Head(auth.events).event = "SIGNED_OUT"
    /\ auth'.events = Tail(auth.events)

\* C29: AuthGuard shows its children only when loading is over and either a
\* user is set off /auth or no user is set on /auth; once it has rendered,
\* no user off /auth has been sent to /auth and a user on /auth has been sent
\* to /; the callback sends every SIGNED_OUT event to /auth, whatever the
\* order of the getSession result and the auth events.
C29_GuardRendersAndRedirects ==
    /\ [](AuthSettled =>
            /\ auth.rendered = "children" =>
                 /\ ~auth.loading
                 /\ \/ auth.user /\ auth.path # AuthPath
                    \/ ~auth.user /\ auth.path = AuthPath
            /\ ~auth.loading => ~(~auth.user /\ auth.path # AuthPath)
            /\ ~auth.loading => ~(auth.user /\ auth.path = AuthPath))
    /\ [][SignedOutHandled => auth'.path = AuthPath]_vars

\* the guard sent a user away from /auth after a sign-in that came before the
\* getSession result, and shows the children
C29_Witness ==
    /\ AuthSettled
    /\ auth.rendered = "children"
    /\ auth.user
    /\ auth.getSession = "done"
    /\ auth.emitted > 0

\* ============================================================= AIAssistant
\* The chat panel: its state, the requests to ai-rag-handler that have not
\* settled, and the effect that follows a change of currentConversationId.
\* A send comes from a key press or a click, and React renders the state a
\* handler has set before it runs the next one, so sendMessage reads the
\* present input and loading.

\* the most calls of sendMessage in one behaviour
MaxSends == 3

Space == " "
\* what the user can have typed: nothing, a space, a question
Inputs == {<<>>, <<Space>>, <<"q">>}

RECURSIVE TrimStart(_)
\* the text without its leading white space
TrimStart(s) ==
    IF s # <<>> /\ Head(s) = Space THEN TrimStart(Tail(s)) ELSE s

RECURSIVE TrimEnd(_)
\* the text without its trailing white space
TrimEnd(s) ==
    IF s # <<>> /\ s[Len(s)] = Space
    THEN TrimEnd(SubSeq(s, 1, Len(s) - 1))
    ELSE s

\* a trim that leaves the text as it is
TrimNothing(s) == s

\* String.prototype.trim
Trim(s) == TrimEnd(TrimStart(s))

\* useState of messages, input, loading, currentConversationId; the effect
\* of the first render loads the history of a conversation given as a prop
InitChat ==
    /\ ProcessorInit
    /\ kms = KmsRest /\ up = UploaderRest /\ rag = RagRest /\ auth = AuthRest
    /\ chat \in {[messages |-> <<>>, input |-> <<>>, loading |-> FALSE,
                  currentConversationId |-> c, inflight |-> <<>>,
                  effect |-> c # NoConversation, calls |-> 0] :
                    c \in {NoConversation, SuppliedConversation}}

\* onChange of the input, which is disabled while loading
SetInput ==
    /\ ~chat.effect
    /\ ~chat.loading
    /\ \E s \in Inputs \ {chat.input} : chat' = [chat EXCEPT !.input = s]
    /\ UNCHANGED <<procVars, kms, up, rag, auth>>

\* sendMessage up to the await of supabase.functions.invoke
SendMessage ==
    /\ ~chat.effect
    /\ chat.calls < MaxSends
    /\ IF Trim(chat.input) = <<>> \/ chat.loading
       THEN chat' = [chat EXCEPT !.calls = @ + 1]
       ELSE chat' = [chat EXCEPT
                       !.calls = @ + 1,
                       !.messages = Append(@, [role |-> "user",
                                               content |-> chat.input]),
                       !.input = <<>>,
                       !.loading = TRUE,
                       !.inflight = Append(@,
                           [message |-> chat.input,
                            conversationId |-> chat.currentConversationId,
                            state |-> "sent"])]
    /\ UNCHANGED <<procVars, kms, up, rag, auth>>

\* ai-rag-handler answers a request: 200 with its body, or an error
RagReply ==
    /\ \E k \in 1..Len(chat.inflight) :
         /\ chat.inflight[k].state = "sent"
         /\ \E s \in {"ok", "error"} :
              chat' = [chat EXCEPT !.inflight[k].state = s]
    /\ UNCHANGED <<procVars, kms, up, rag, auth>>

\* the inflight requests without the k-th
WithoutRequest(k) ==
    SubSeq(chat.inflight, 1, k - 1)
        \o SubSeq(chat.inflight, k + 1, Len(chat.inflight))

\* sendMessage after the await: the assistant message of the response, or of
\* the error in the catch block, then finally setLoading(false)
SettleRequest ==
    /\ \E k \in 1..Len(chat.inflight) :
         LET req == chat.inflight[k]
             dataConversationId ==
                 IF req.conversationId # NoConversation
                 THEN req.conversationId ELSE CreatedConversation
             isNew == chat.currentConversationId = NoConversation
         IN  /\ req.state # "sent"
             /\ chat' = [chat EXCEPT
                   !.inflight = WithoutRequest(k),
                   !.messages = Append(@,
                       [role |-> "assistant",
                        content |-> IF req.state = "ok" THEN <<"response">>
                                    ELSE <<"error">>]),
                   !.currentConversationId =
                       IF req.state = "ok" /\ isNew
                       THEN dataConversationId ELSE @,
                   !.effect = req.state = "ok" /\ isNew,
                   !.loading = FALSE]
    /\ UNCHANGED <<procVars, kms, up, rag, auth>>

\* useEffect on currentConversationId: loadConversationHistory, which for
\* now sets the messages to the empty list
LoadConversationHistory ==
    /\ chat.effect
    /\ chat' = [chat EXCEPT !.effect = FALSE, !.messages = <<>>]
    /\ UNCHANGED <<procVars, kms, up, rag, auth>>

NextChat ==
    \/ SetInput
    \/ SendMessage
    \/ RagReply
    \/ SettleRequest
    \/ LoadConversationHistory

SpecChat == InitChat /\ [][NextChat]_vars

\* the text holds nothing but white space
IsBlank(s) == \A k \in 1..Len(s) : s[k] = Space

\* sendMessage is called
SendCalled == chat'.calls = chat.calls + 1

\* a request settles
RequestSettled == Len(chat'.inflight) < Len(chat.inflight)

\* C30: a call of sendMessage with a blank input or while loading changes
\* nothing; any other call appends one user message with the input and puts
\* one request in flight; a request that settles appends one assistant
\* message, the response when it succeeded and the error when it failed, and
\* leaves loading false; nothing else adds a message; loading is true exactly
\* while a request is in flight, and at most one is.
C30_OneRequestOneAnswer ==
    /\ [](/\ Len(chat.inflight) <= 1
          /\ chat.loading <=> chat.inflight # <<>>)
    /\ [][/\ SendCalled /\ (IsBlank(chat.input) \/ chat.loading) =>
               chat' = [chat EXCEPT !.calls = @ + 1]
          /\ SendCalled /\ ~(IsBlank(chat.input) \/ chat.loading) =>
               /\ chat'.messages =
                    Append(chat.messages,
                           [role |-> "user", content |-> chat.input])
               /\ Len(chat'.inflight) = 1
               /\ chat'.loading
          /\ RequestSettled =>
               /\ ~chat'.loading
               /\ chat'.messages =
                    Append(chat.messages,
                           [role |-> "assistant",
                            content |-> IF chat.inflight[1].state = "ok"
                                        THEN <<"response">> ELSE <<"error">>])
               /\ Len(chat.messages) > 0
               /\ chat.messages[Len(chat.messages)].role = "user"
          /\ chat'.messages # chat.messages =>
               SendCalled \/ RequestSettled \/ chat'.messages = <<>>]_vars

\* a second question was answered after the first one had failed
C30_Witness ==
    /\ Len(chat.messages) = 4
    /\ chat.messages[2].content = <<"error">>
    /\ chat.messages[4].content = <<"response">>
    /\ ~chat.loading
    /\ chat.calls = MaxSends
====
